---- MODULE Spec2Model ----
(***************************************************************************)
(* A model of src/src/main.rs: a single-threaded busy-polling executor     *)
(* (Executor, Task) and a timer future (TimerFuture) whose background      *)
(* thread wakes the task.                                                  *)
(*                                                                         *)
(* Threads: the main thread (main, then Executor::run), one timer thread   *)
(* per TimerFuture, and - only in SpecExt - one further holder of a cloned *)
(* Waker.                                                                  *)
(*                                                                         *)
(* EXECUTOR is a `static mut`: every access to ready_queue is an           *)
(* unsynchronised access to a VecDeque.  push_back and pop_front are       *)
(* therefore not atomic: each is a load of the deque (its head and length) *)
(* followed, in a later step, by a store of the deque computed from what   *)
(* was loaded.  Operations that do not overlap behave sequentially;        *)
(* operations that overlap produce the lost updates a data race on the     *)
(* deque's length can produce.                                             *)
(***************************************************************************)
EXTENDS Integers, Sequences, FiniteSets, TLC

\* ---------------------------------------------------------------- bounds
\* number of hello(i) tasks main may spawn (main.rs spawns four)
NumTasks == 2
\* history counters saturate at this value
MaxCount == 3

Tasks == 1..NumTasks
\* thread identities: 0 is the main thread, t \in Tasks is the timer thread
\* of task t's TimerFuture, ExtThread is the extra waker holder of SpecExt
MainThread == 0
ExtThread == NumTasks + 1
Threads == 0..(NumTasks + 1)
\* Option::None for a waker slot / "no task"
NoTask == 0

VARIABLES
    ready_queue,   \* EXECUTOR.ready_queue : sequence of task references
    future,        \* Task.future slot: "Unspawned" | "Some" | "None"
    future_lock,   \* Task.future mutex: thread holding it, or -1
    hello,         \* state of the async fn hello/world: "Start" | "Await" | "Done"
    completed,     \* SharedState.completed of the task's TimerFuture
    waker,         \* SharedState.waker: NoTask (None) or the task the waker wakes
    state_lock,    \* the shared_state mutex: thread holding it, or -1
    tpc,           \* position of each timer thread
    twaker,        \* the waker a timer thread took out of shared_state
    runpc,         \* position of the main thread
    cur,           \* the task the run-loop popped (local `task`)
    snap,          \* per thread: the deque value loaded by an operation in progress
    extpc,         \* position of the extra waker holder (SpecExt only)
    ext_task,      \* the task its waker is bound to
    \* ---- history variables (observers; no action reads them in a guard)
    running,       \* per task: the threads currently inside poll() of its future
    world_count,   \* per task: number of times "World i!" ran (saturating)
    pended,        \* per task: some poll() of its TimerFuture reported Pending
    timer_woke,    \* per task: its timer thread triggered a waker
    wakes,         \* per task: triggers while Holding since it was last popped
    dpops,         \* per task: pops since a pop that followed >= 2 such triggers
    dpolls,        \* per task: resumptions since a pop that followed >= 2 such triggers
    first_woken,   \* the first task a timer thread triggered a waker of, or NoTask
    rerun,         \* run() was called again after it returned (SpecRerun only)
    in_queue_op    \* the threads between the load and the store of a deque operation

vars == <<ready_queue, future, future_lock, hello, completed, waker, state_lock,
          tpc, twaker, runpc, cur, snap, extpc, ext_task,
          running, world_count, pended, timer_woke, wakes, dpops, dpolls,
          first_woken, rerun, in_queue_op>>

exec_vars == <<ready_queue, snap, in_queue_op>>
task_vars == <<future, future_lock, hello>>
timer_state_vars == <<completed, waker, state_lock>>
timer_thread_vars == <<tpc, twaker>>
main_vars == <<runpc, cur>>
ext_vars == <<extpc, ext_task>>
hist_vars == <<running, world_count, pended, timer_woke, wakes, dpops, dpolls,
               first_woken, rerun>>

\* ------------------------------------------------------------- helpers
Free == -1

Inc(f, t) == [f EXCEPT ![t] = IF @ < MaxCount THEN @ + 1 ELSE @]

Count(q, t) == Cardinality({i \in 1..Len(q) : q[i] = t})

InQueue(t) == \E i \in 1..Len(ready_queue) : ready_queue[i] = t

\* ------------------------------------------------ VecDeque operations
\* VecDeque::push_back, first half: load the deque.
PushLoad(th) ==
    /\ snap' = [snap EXCEPT ![th] = ready_queue]
    /\ in_queue_op' = in_queue_op \cup {th}
    /\ UNCHANGED ready_queue

\* Faulty variant of PushStore: the element is not stored (the length is not advanced).
PushStore_Drop(th, t) ==
    /\ ready_queue' = snap[th]
    /\ snap' = [snap EXCEPT ![th] = <<>>]
    /\ in_queue_op' = in_queue_op \ {th}

\* VecDeque::push_back, second half: store the element after what was loaded.
PushStore(th, t) ==
    /\ ready_queue' = Append(snap[th], t)
    /\ snap' = [snap EXCEPT ![th] = <<>>]
    /\ in_queue_op' = in_queue_op \ {th}

\* Task::wake / wake_by_ref: counts as a trigger of t's Wake Handle while t is
\* Holding and run() is still looping.
WakeTrigger(t) ==
    wakes' = IF future[t] = "Some" /\ runpc # "returned" THEN Inc(wakes, t) ELSE wakes

Init ==
    /\ ready_queue = <<>>
    /\ future = [t \in Tasks |-> "Unspawned"]
    /\ future_lock = [t \in Tasks |-> Free]
    /\ hello = [t \in Tasks |-> "Start"]
    /\ completed = [t \in Tasks |-> FALSE]
    /\ waker = [t \in Tasks |-> NoTask]
    /\ state_lock = [t \in Tasks |-> Free]
    /\ tpc = [t \in Tasks |-> "none"]
    /\ twaker = [t \in Tasks |-> NoTask]
    /\ runpc = "main"
    /\ cur = NoTask
    /\ snap = [th \in Threads |-> <<>>]
    /\ extpc = "idle"
    /\ ext_task = NoTask
    /\ running = [t \in Tasks |-> {}]
    /\ world_count = [t \in Tasks |-> 0]
    /\ pended = [t \in Tasks |-> FALSE]
    /\ timer_woke = [t \in Tasks |-> FALSE]
    /\ wakes = [t \in Tasks |-> 0]
    /\ dpops = [t \in Tasks |-> 0]
    /\ dpolls = [t \in Tasks |-> 0]
    /\ first_woken = NoTask
    /\ rerun = FALSE
    /\ in_queue_op = {}

\* ----------------------------------------------------------- main thread
\* Executor::spawn(hello(i)), called by main before run: no other thread
\* exists yet, so the push is one step.
Spawn ==
    /\ runpc = "main"
    /\ \E t \in Tasks :
        /\ future[t] = "Unspawned"
        /\ \A u \in Tasks : u < t => future[u] # "Unspawned"
        /\ future' = [future EXCEPT ![t] = "Some"]
        /\ ready_queue' = Append(ready_queue, t)
    /\ UNCHANGED <<snap, in_queue_op, future_lock, hello, timer_state_vars,
                   timer_thread_vars, main_vars, ext_vars, hist_vars>>

\* main: unsafe { EXECUTOR.run() }
Run ==
    /\ runpc = "main"
    /\ runpc' = "pop"
    /\ UNCHANGED <<cur, exec_vars, task_vars, timer_state_vars, timer_thread_vars,
                   ext_vars, hist_vars>>

\* Faulty variant of PopLoad: on an empty deque run() waits for an entry.
PopLoad_WaitsOnEmpty ==
    /\ runpc = "pop"
    /\ ready_queue # <<>>
    /\ runpc' = "pop_store"
    /\ snap' = [snap EXCEPT ![MainThread] = ready_queue]
    /\ in_queue_op' = in_queue_op \cup {MainThread}
    /\ UNCHANGED <<ready_queue, cur, task_vars, timer_state_vars, timer_thread_vars,
                   ext_vars, hist_vars>>

\* run: `while let Some(task) = self.ready_queue.pop_front()`, the load.
\* An empty deque makes pop_front return None without a store: run returns.
PopLoad ==
    /\ runpc = "pop"
    /\ IF ready_queue = <<>>
          THEN /\ runpc' = "returned"
               /\ UNCHANGED <<snap, in_queue_op>>
          ELSE /\ runpc' = "pop_store"
               /\ snap' = [snap EXCEPT ![MainThread] = ready_queue]
               /\ in_queue_op' = in_queue_op \cup {MainThread}
    /\ UNCHANGED <<ready_queue, cur, task_vars, timer_state_vars, timer_thread_vars,
                   ext_vars, hist_vars>>

\* pop_front, the store: the head moves past the element that was loaded.
PopStore ==
    /\ runpc = "pop_store"
    /\ LET t == Head(snap[MainThread]) IN
        /\ ready_queue' = Tail(snap[MainThread])
        /\ cur' = t
        /\ wakes' = [wakes EXCEPT ![t] = 0]
        /\ dpops' = IF wakes[t] >= 2 \/ dpops[t] >= 1 THEN Inc(dpops, t) ELSE dpops
    /\ snap' = [snap EXCEPT ![MainThread] = <<>>]
    /\ in_queue_op' = in_queue_op \ {MainThread}
    /\ runpc' = "lock"
    /\ UNCHANGED <<task_vars, timer_state_vars, timer_thread_vars, ext_vars,
                   running, world_count, pended, timer_woke, dpolls, first_woken, rerun>>

\* Faulty variant of LockTake: the slot is not tested for Some before polling.
LockTake_NoSlotCheck ==
    /\ runpc = "lock"
    /\ future_lock[cur] = Free
    /\ future' = [future EXCEPT ![cur] = "None"]
    /\ future_lock' = [future_lock EXCEPT ![cur] = MainThread]
    /\ runpc' = "poll"
    /\ cur' = cur
    /\ UNCHANGED <<hello, exec_vars, timer_state_vars, timer_thread_vars,
                   ext_vars, hist_vars>>

\* run: `task.future.lock().unwrap()` and `future_slot.take()`.
\* An empty slot ends the iteration (the guard is dropped).
LockTake ==
    /\ runpc = "lock"
    /\ future_lock[cur] = Free
    /\ IF future[cur] = "Some"
          THEN /\ future' = [future EXCEPT ![cur] = "None"]
               /\ future_lock' = [future_lock EXCEPT ![cur] = MainThread]
               /\ runpc' = "poll"
               /\ cur' = cur
          ELSE /\ UNCHANGED <<future, future_lock>>
               /\ runpc' = "pop"
               /\ cur' = NoTask
    /\ UNCHANGED <<hello, exec_vars, timer_state_vars, timer_thread_vars,
                   ext_vars, hist_vars>>

\* run: `future.as_mut().poll(context)` enters hello(i): on the first
\* resumption it prints, calls world(i), and TimerFuture::new spawns the
\* timer thread; on every resumption it goes on to poll the TimerFuture.
PollHello ==
    /\ runpc = "poll"
    /\ running' = [running EXCEPT ![cur] = @ \cup {MainThread}]
    /\ dpolls' = IF dpops[cur] >= 1 THEN Inc(dpolls, cur) ELSE dpolls
    /\ IF hello[cur] = "Start"
          THEN /\ hello' = [hello EXCEPT ![cur] = "Await"]
               /\ tpc' = [tpc EXCEPT ![cur] = "sleep"]
          ELSE UNCHANGED <<hello, tpc>>
    /\ runpc' = "poll_lock"
    /\ UNCHANGED <<cur, twaker, exec_vars, future, future_lock, timer_state_vars,
                   ext_vars, world_count, pended, timer_woke, wakes, dpops, first_woken, rerun>>

\* Faulty variant of PollLock: poll reads and writes shared_state without the mutex.
PollLock_NoLock ==
    /\ runpc = "poll_lock"
    /\ runpc' = "poll_check"
    /\ UNCHANGED <<cur, timer_state_vars, exec_vars, task_vars, timer_thread_vars,
                   ext_vars, hist_vars>>

\* TimerFuture::poll: `self.shared_state.lock().unwrap()`
PollLock ==
    /\ runpc = "poll_lock"
    /\ state_lock[cur] = Free
    /\ state_lock' = [state_lock EXCEPT ![cur] = MainThread]
    /\ runpc' = "poll_check"
    /\ UNCHANGED <<cur, completed, waker, exec_vars, task_vars, timer_thread_vars,
                   ext_vars, hist_vars>>

\* Faulty variant of PollCheck: completed is honoured only if a waker was registered before.
PollCheck_NeedsWaker ==
    /\ runpc = "poll_check"
    /\ runpc' = IF completed[cur] /\ pended[cur] THEN "poll_ready" ELSE "poll_store"
    /\ UNCHANGED <<cur, exec_vars, task_vars, timer_state_vars, timer_thread_vars,
                   ext_vars, hist_vars>>

\* TimerFuture::poll: `if shared_state.completed`
PollCheck ==
    /\ runpc = "poll_check"
    /\ runpc' = IF completed[cur] THEN "poll_ready" ELSE "poll_store"
    /\ UNCHANGED <<cur, exec_vars, task_vars, timer_state_vars, timer_thread_vars,
                   ext_vars, hist_vars>>

\* TimerFuture::poll: `Poll::Ready(())`; the guard is dropped on return,
\* world prints "World i!" and hello(i) finishes.
PollReady ==
    /\ runpc = "poll_ready"
    /\ state_lock' = [state_lock EXCEPT ![cur] = Free]
    /\ running' = [running EXCEPT ![cur] = @ \ {MainThread}]
    /\ hello' = [hello EXCEPT ![cur] = "Done"]
    /\ world_count' = Inc(world_count, cur)
    /\ runpc' = "ready"
    /\ UNCHANGED <<cur, completed, waker, exec_vars, future, future_lock,
                   timer_thread_vars, ext_vars, pended, timer_woke, wakes,
                   dpops, dpolls, first_woken, rerun>>

\* TimerFuture::poll: `shared_state.waker = Some(cx.waker().clone()); Poll::Pending`;
\* the guard is dropped on return and hello(i) reports Pending.
PollStoreWaker ==
    /\ runpc = "poll_store"
    /\ waker' = [waker EXCEPT ![cur] = cur]
    /\ state_lock' = [state_lock EXCEPT ![cur] = Free]
    /\ running' = [running EXCEPT ![cur] = @ \ {MainThread}]
    /\ pended' = [pended EXCEPT ![cur] = TRUE]
    /\ runpc' = "pending"
    /\ UNCHANGED <<cur, completed, exec_vars, task_vars, timer_thread_vars,
                   ext_vars, world_count, timer_woke, wakes, dpops, dpolls, first_woken, rerun>>

\* run, Poll::Pending: `*future_slot = Some(future)`
PendingRestore ==
    /\ runpc = "pending"
    /\ future' = [future EXCEPT ![cur] = "Some"]
    /\ runpc' = "wake_load"
    /\ UNCHANGED <<cur, future_lock, hello, exec_vars, timer_state_vars,
                   timer_thread_vars, ext_vars, hist_vars>>

\* run, Poll::Pending: `context.waker().wake_by_ref()` -> Task::wake ->
\* ready_queue.push_back, the load.
WakeByRefLoad ==
    /\ runpc = "wake_load"
    /\ PushLoad(MainThread)
    /\ WakeTrigger(cur)
    /\ runpc' = "wake_store"
    /\ UNCHANGED <<cur, task_vars, timer_state_vars, timer_thread_vars, ext_vars,
                   running, world_count, pended, timer_woke, dpops, dpolls, first_woken, rerun>>

\* Faulty variant of WakeByRefStore: a Pending task is left off the queue.
WakeByRefStore_NoPush ==
    /\ runpc = "wake_store"
    /\ snap' = [snap EXCEPT ![MainThread] = <<>>]
    /\ in_queue_op' = in_queue_op \ {MainThread}
    /\ runpc' = "unlock"
    /\ UNCHANGED <<ready_queue, cur, task_vars, timer_state_vars, timer_thread_vars,
                   ext_vars, hist_vars>>

\* ... and the store.
WakeByRefStore ==
    /\ runpc = "wake_store"
    /\ PushStore(MainThread, cur)
    /\ runpc' = "unlock"
    /\ UNCHANGED <<cur, task_vars, timer_state_vars, timer_thread_vars, ext_vars,
                   hist_vars>>

\* Faulty variant of ReadyArm: the Ready arm re-enqueues the task as the Pending arm does.
ReadyArm_Requeue ==
    /\ runpc = "ready"
    /\ ready_queue' = Append(ready_queue, cur)
    /\ runpc' = "unlock"
    /\ UNCHANGED <<cur, snap, in_queue_op, task_vars, timer_state_vars,
                   timer_thread_vars, ext_vars, hist_vars>>

\* run, Poll::Ready(v) => {}
ReadyArm ==
    /\ runpc = "ready"
    /\ runpc' = "unlock"
    /\ UNCHANGED <<cur, exec_vars, task_vars, timer_state_vars, timer_thread_vars,
                   ext_vars, hist_vars>>

\* run: end of the loop body, future_slot's guard is dropped.
Unlock ==
    /\ runpc = "unlock"
    /\ future_lock' = [future_lock EXCEPT ![cur] = Free]
    /\ cur' = NoTask
    /\ runpc' = "pop"
    /\ UNCHANGED <<future, hello, exec_vars, timer_state_vars, timer_thread_vars,
                   ext_vars, hist_vars>>

\* --------------------------------------------------------- timer threads
\* Faulty variant of TimerFire: the waker is cloned out of shared_state, not taken.
TimerFire_NoTake(t) ==
    /\ tpc[t] = "sleep"
    /\ state_lock[t] = Free
    /\ completed' = [completed EXCEPT ![t] = TRUE]
    /\ twaker' = [twaker EXCEPT ![t] = waker[t]]
    /\ IF waker[t] # NoTask
          THEN /\ state_lock' = [state_lock EXCEPT ![t] = t]
               /\ tpc' = [tpc EXCEPT ![t] = "wake_load"]
          ELSE /\ UNCHANGED state_lock
               /\ tpc' = [tpc EXCEPT ![t] = "done"]
    /\ UNCHANGED <<waker, exec_vars, task_vars, main_vars, ext_vars, hist_vars>>

\* thread::sleep(duration) returns; the thread takes the shared_state lock,
\* `shared_state.completed = true; if let Some(waker) = shared_state.waker.take()`.
\* With no waker registered the closure ends here and the guard is dropped.
TimerFire(t) ==
    /\ tpc[t] = "sleep"
    /\ state_lock[t] = Free
    /\ completed' = [completed EXCEPT ![t] = TRUE]
    /\ waker' = [waker EXCEPT ![t] = NoTask]
    /\ twaker' = [twaker EXCEPT ![t] = waker[t]]
    /\ IF waker[t] # NoTask
          THEN /\ state_lock' = [state_lock EXCEPT ![t] = t]
               /\ tpc' = [tpc EXCEPT ![t] = "wake_load"]
          ELSE /\ UNCHANGED state_lock
               /\ tpc' = [tpc EXCEPT ![t] = "done"]
    /\ UNCHANGED <<exec_vars, task_vars, main_vars, ext_vars, hist_vars>>

\* Faulty variant of TimerWakeLoad: the timer thread resumes the task's future itself.
TimerWakeLoad_Polls(t) ==
    /\ tpc[t] = "wake_load"
    /\ PushLoad(t)
    /\ WakeTrigger(twaker[t])
    /\ timer_woke' = [timer_woke EXCEPT ![t] = TRUE]
    /\ running' = [running EXCEPT ![twaker[t]] = @ \cup {t}]
    /\ tpc' = [tpc EXCEPT ![t] = "wake_store"]
    /\ UNCHANGED <<twaker, task_vars, timer_state_vars, main_vars, ext_vars,
                   world_count, pended, dpops, dpolls, first_woken, rerun>>

\* Faulty variant of TimerWakeLoad: Task::wake locks the task's future mutex first.
TimerWakeLoad_LocksFuture(t) ==
    /\ tpc[t] = "wake_load"
    /\ future_lock[twaker[t]] = Free
    /\ PushLoad(t)
    /\ WakeTrigger(twaker[t])
    /\ timer_woke' = [timer_woke EXCEPT ![t] = TRUE]
    /\ first_woken' = IF first_woken = NoTask THEN twaker[t] ELSE first_woken
    /\ tpc' = [tpc EXCEPT ![t] = "wake_store"]
    /\ UNCHANGED <<twaker, task_vars, timer_state_vars, main_vars, ext_vars,
                   running, world_count, pended, dpops, dpolls, rerun>>

\* `waker.wake()` -> Task::wake -> ready_queue.push_back, the load.
TimerWakeLoad(t) ==
    /\ tpc[t] = "wake_load"
    /\ PushLoad(t)
    /\ WakeTrigger(twaker[t])
    /\ timer_woke' = [timer_woke EXCEPT ![t] = TRUE]
    /\ first_woken' = IF first_woken = NoTask THEN twaker[t] ELSE first_woken
    /\ tpc' = [tpc EXCEPT ![t] = "wake_store"]
    /\ UNCHANGED <<twaker, task_vars, timer_state_vars, main_vars, ext_vars,
                   running, world_count, pended, dpops, dpolls, rerun>>

\* ... and the store; the closure ends, the shared_state guard is dropped.
TimerWakeStore(t) ==
    /\ tpc[t] = "wake_store"
    /\ PushStore(t, twaker[t])
    /\ twaker' = [twaker EXCEPT ![t] = NoTask]
    /\ state_lock' = [state_lock EXCEPT ![t] = Free]
    /\ tpc' = [tpc EXCEPT ![t] = "done"]
    /\ UNCHANGED <<completed, waker, task_vars, main_vars, ext_vars, hist_vars>>

MainStep ==
    \/ Spawn
    \/ Run
    \/ PopLoad
    \/ PopStore
    \/ LockTake
    \/ PollHello
    \/ PollLock
    \/ PollCheck
    \/ PollReady
    \/ PollStoreWaker
    \/ PendingRestore
    \/ WakeByRefLoad
    \/ WakeByRefStore
    \/ ReadyArm
    \/ Unlock

TimerStep(t) ==
    \/ TimerFire(t)
    \/ TimerWakeLoad(t)
    \/ TimerWakeStore(t)

Next ==
    \/ MainStep
    \/ \E t \in Tasks : TimerStep(t)

Spec == Init /\ [][Next]_vars

\* The main thread is scheduled again and again (it never blocks except on a
\* mutex); nothing is assumed about when a timer thread's sleep ends.
FairSpec == Spec /\ WF_vars(MainStep)

\* The main thread and every timer thread are OS threads (thread::spawn,
\* main.rs:105): each keeps being scheduled while it has a step to take. A
\* timer thread waiting in shared_state.lock() (main.rs:108) gets the mutex
\* when the run-loop releases it again and again, hence strong fairness.
FairAllSpec ==
    Spec /\ WF_vars(MainStep) /\ \A t \in Tasks : SF_vars(TimerStep(t))

\* ------------------------------------------------- a further waker holder
\* The Waker that run builds from the task (`Waker::from(task.clone())`) is
\* cloneable and Send: any thread holding a clone may call Task::wake at any
\* time, also after the task has finished.  SpecExt adds one such holder, which
\* triggers the Wake Handle of a task that has finished; `wake(self: Arc<Self>)`
\* consumes the Waker, so it triggers once.
ExtWakeLoad ==
    /\ extpc = "idle"
    /\ \E t \in Tasks :
        /\ hello[t] = "Done"
        /\ ext_task' = t
        /\ WakeTrigger(t)
    /\ PushLoad(ExtThread)
    /\ extpc' = "store"
    /\ UNCHANGED <<task_vars, timer_state_vars, timer_thread_vars, main_vars,
                   running, world_count, pended, timer_woke, dpops, dpolls, first_woken, rerun>>

ExtWakeStore ==
    /\ extpc = "store"
    /\ PushStore(ExtThread, ext_task)
    /\ extpc' = "done"
    /\ UNCHANGED <<ext_task, task_vars, timer_state_vars,
                   timer_thread_vars, main_vars, hist_vars>>

ExtStep ==
    \/ ExtWakeLoad
    \/ ExtWakeStore

NextExt ==
    \/ MainStep
    \/ \E t \in Tasks : TimerStep(t)
    \/ ExtStep

SpecExt == Init /\ [][NextExt]_vars

\* ---- a caller that calls run() again after it returned with the deque
\* ---- empty: run() is a pub fn on the static EXECUTOR (SpecRerun)
RunAgain ==
    /\ runpc = "returned"
    /\ ready_queue = <<>>
    /\ ~rerun
    /\ rerun' = TRUE
    /\ runpc' = "pop"
    /\ UNCHANGED <<cur, exec_vars, task_vars, timer_state_vars, timer_thread_vars,
                   ext_vars, running, world_count, pended, timer_woke, wakes,
                   dpops, dpolls, first_woken>>

NextRerun ==
    \/ MainStep
    \/ \E t \in Tasks : TimerStep(t)
    \/ RunAgain

SpecRerun == Init /\ [][NextRerun]_vars

\* ---- a computation that calls Executor::spawn while run() resumes it
\* ---- (SpecSpawn): spawn creates the Task, then pushes it with the same
\* ---- unsynchronised push_back, here concurrent with the timer threads.
NewestTask == CHOOSE t \in Tasks :
    future[t] # "Unspawned" /\ \A u \in Tasks : u > t => future[u] = "Unspawned"

SpawnInRunLoad ==
    /\ runpc = "poll"
    /\ \E t \in Tasks :
        /\ future[t] = "Unspawned"
        /\ \A u \in Tasks : u < t => future[u] # "Unspawned"
        /\ future' = [future EXCEPT ![t] = "Some"]
    /\ PushLoad(MainThread)
    /\ runpc' = "spawn_store"
    /\ UNCHANGED <<cur, future_lock, hello, timer_state_vars, timer_thread_vars,
                   ext_vars, hist_vars>>

SpawnInRunStore ==
    /\ runpc = "spawn_store"
    /\ PushStore(MainThread, NewestTask)
    /\ runpc' = "poll"
    /\ UNCHANGED <<cur, task_vars, timer_state_vars, timer_thread_vars,
                   ext_vars, hist_vars>>

NextSpawn ==
    \/ MainStep
    \/ \E t \in Tasks : TimerStep(t)
    \/ SpawnInRunLoad
    \/ SpawnInRunStore

SpecSpawn == Init /\ [][NextSpawn]_vars

\* ================================================================ claims
Spawned(t) == future[t] # "Unspawned"

\* the main-thread positions inside one resumption of `cur` and its Pending arm
InResumption == {"poll", "poll_lock", "poll_check", "poll_ready", "poll_store"}

\* C1: completion is terminal - once a resumption of a task has reported
\* "finished" (hello is Done), the task is never inside a resumption again,
\* its slot stays empty, and its post-wait step has run once.
C1_CompletionTerminal ==
    \A t \in Tasks :
        hello[t] = "Done" =>
            /\ running[t] = {}
            /\ future[t] = "None"
            /\ ~(cur = t /\ runpc \in InResumption)
            /\ world_count[t] = 1

\* C1 witness: a finished task has been popped again and the run-loop is
\* about to look at its slot.
C1_Witness ==
    \E t \in Tasks : hello[t] = "Done" /\ cur = t /\ runpc = "lock"

\* C2: at most one resumption of a task is in progress, it is the run-loop's
\* (timer threads never resume), and it holds the task exclusively: the slot
\* is taken and the future mutex is held until the resumption returns.
C2_SingleResumption ==
    /\ \A t \in Tasks :
        /\ running[t] \subseteq {MainThread}
        /\ running[t] # {} =>
              /\ cur = t
              /\ runpc \in InResumption
              /\ future[t] = "None"
              /\ future_lock[t] = MainThread
    /\ Cardinality({t \in Tasks : running[t] # {}}) <= 1

\* C2 witness: a task is woken by its timer thread while it is being resumed.
C2_Witness ==
    \E t \in Tasks : running[t] = {MainThread} /\ timer_woke[t] /\ InQueue(t)

\* C3: each task occurs in the run queue at most once.
C3_Orig_AtMostOnce ==
    \A t \in Tasks : Count(ready_queue, t) <= 1

\* the Wake Handle of t was triggered twice or more while t was Holding and
\* before the run-loop next popped t
DoubleTriggered(t) == wakes[t] >= 2 \/ dpops[t] >= 1

\* C4: two or more triggers while the task is Holding and before its next pop
\* cause exactly one pop-and-resumption of the task: never more than one, and
\* one by the time run() returns.
C4_Orig_OneResumption ==
    \A t \in Tasks :
        /\ dpolls[t] <= 1
        /\ (runpc = "returned" /\ DoubleTriggered(t)) => dpolls[t] = 1

\* the step in which the extra holder's Task::wake stores into the deque
ExtWakeDone == extpc = "store" /\ extpc' = "done"

C6_NoLostWakeup ==
    \A t \in Tasks :
        /\ (completed[t] /\ state_lock[t] = Free) => waker[t] = NoTask
        /\ (tpc[t] = "done" /\ pended[t]) => timer_woke[t]
        /\ tpc[t] \in {"wake_load", "wake_store"} => (completed[t] /\ twaker[t] = t)
        /\ timer_woke[t] => (completed[t] /\ pended[t])
        /\ hello[t] = "Done" => completed[t]

\* C6 witness: a poll reported Pending, the timer thread then fired and its
\* wake put the task on the queue.
C6_Witness ==
    \E t \in Tasks :
        pended[t] /\ tpc[t] = "done" /\ timer_woke[t] /\ InQueue(t)

\* C7 (as stated): no two threads are inside a run-queue operation at once.
C7_Orig_QueueMutex ==
    Cardinality(in_queue_op) <= 1

NoTimerWake == \A u \in Tasks : ~timer_woke[u]

\* a task that reported Pending, is Holding again, and is not in the run-loop's hands
Suspended(t) == pended[t] /\ future[t] = "Some" /\ cur # t

RunLoopWakeDone == runpc = "wake_store" /\ runpc' = "unlock"

AllSuspended ==
    /\ runpc = "pop"
    /\ \E t \in Tasks : Spawned(t)
    /\ \A t \in Tasks : Spawned(t) => (Suspended(t) /\ ~completed[t])

C10_Orig_RunWaits ==
    runpc = "returned" =>
        \A t \in Tasks : Spawned(t) => (completed[t] /\ world_count[t] = 1)

\* C11: poll() of the TimerFuture reports "not ready" whenever it observes
\* completed false and "finished" whenever completed is set, with or without
\* a waker registered before; completed never goes back to false.
C11_PollFollowsCompleted ==
    /\ [](/\ runpc = "poll_store" => ~completed[cur]
          /\ runpc = "poll_ready" => completed[cur]
          /\ \A t \in Tasks : pended[t] \/ hello[t] = "Done" => hello[t] # "Start"
          /\ \A t \in Tasks : hello[t] = "Done" => completed[t])
    /\ [][\A t \in Tasks : completed[t] => completed'[t]]_vars

\* C11 witness: poll reports finished for a timer on which no waker was ever
\* registered.
C11_Witness ==
    runpc = "poll_ready" /\ ~pended[cur] /\ waker[cur] = NoTask

\* the step in which timer thread t sets completed
Elapses(t) == ~completed[t] /\ completed'[t]

\* the step in which timer thread t calls wake() on the waker it took
TimerTriggers(t) == tpc[t] = "wake_load" /\ tpc'[t] = "wake_store"

\* C12: the waker registered when completed becomes true is taken out of the
\* shared state and triggered by the timer thread that set completed, once:
\* a timer thread triggers only after completed, only the waker it took, and
\* never a second time; no waker is registered after completed.
C12_WakerTriggeredOnce ==
    /\ [][\A t \in Tasks :
            Elapses(t) =>
                /\ tpc[t] = "sleep"
                /\ twaker'[t] = waker[t]
                /\ waker'[t] = NoTask
                /\ tpc'[t] = IF waker[t] # NoTask THEN "wake_load" ELSE "done"]_vars
    /\ [][\A t \in Tasks :
            TimerTriggers(t) =>
                /\ ~timer_woke[t]
                /\ completed[t]
                /\ twaker[t] = t
                /\ waker[t] = NoTask]_vars
    /\ [](\A t \in Tasks :
            /\ (completed[t] /\ state_lock[t] # MainThread) => waker[t] = NoTask
            /\ tpc[t] = "done" => twaker[t] = NoTask)

\* C12 witness: a timer thread has triggered the registered waker and ended.
C12_Witness ==
    \E t \in Tasks : timer_woke[t] /\ tpc[t] = "done" /\ completed[t]

\* the step in which the computation of the popped task runs its post-wait step
PostWait(t) == hello[t] = "Await" /\ hello'[t] = "Done"

\* C13 (as stated): post-wait steps run in the order of the timer wakeups: when
\* a task whose timer wakeup was triggered runs its post-wait step, the task
\* whose wakeup was triggered first has already run its own.
C13_Orig_WakeOrder ==
    [][\A t \in Tasks :
         (PostWait(t) /\ timer_woke[t] /\ first_woken \notin {NoTask, t})
             => hello[first_woken] = "Done"]_vars

\* C14 (as stated): the ready queue is FIFO: every change of the queue either
\* appends one entry at the tail of the current queue or removes its current
\* head, which becomes the popped task; no entry is dropped, duplicated or
\* reordered.
C14_Orig_Fifo ==
    [][ready_queue' # ready_queue =>
          \/ \E t \in Tasks : ready_queue' = Append(ready_queue, t)
          \/ /\ ready_queue # <<>>
             /\ ready_queue' = Tail(ready_queue)
             /\ cur' = Head(ready_queue)]_vars

\* main spawned exactly one computation before calling run()
OneSpawned ==
    runpc # "main" /\ Spawned(1) /\ \A t \in Tasks \ {1} : ~Spawned(t)

\* The only task finished and no poll of it ever reported Pending; every
\* resumption ends Pending or Ready, and world_count counts the Ready ones,
\* so world_count = 1 then says the task was resumed exactly once.
FinishedFirstResumption == hello[1] = "Done" /\ ~pended[1]

\* C15: one spawned computation that finishes on its first resumption: the
\* task is resumed exactly once, nothing is re-enqueued, the run-loop goes
\* straight to its return, and run() returns with the queue empty and the
\* task Completed (slot empty, computation done).
C15_SingleImmediate ==
    /\ (OneSpawned /\ FinishedFirstResumption) =>
          /\ world_count[1] = 1
          /\ ready_queue = <<>>
          /\ future[1] = "None"
          /\ runpc \in {"ready", "unlock", "pop", "returned"}
    /\ (OneSpawned /\ runpc = "returned" /\ ~pended[1]) =>
          /\ FinishedFirstResumption
          /\ cur = NoTask
          /\ future_lock[1] = Free
          /\ snap[MainThread] = <<>>

\* C15 witness: run() has returned after that single resumption.
C15_Witness ==
    OneSpawned /\ FinishedFirstResumption /\ runpc = "returned" /\ world_count[1] = 1

\* run() is entered (or is back at the top of its loop) and the deque is empty
RunOnEmpty == runpc = "pop" /\ ready_queue = <<>>

\* C16: run() on an empty ready queue, on the first call or on a call after
\* run() returned, returns at once: its next step is the return, and that step
\* resumes nothing and changes no task, timer or queue state.
C16_RunOnEmptyReturns ==
    /\ [](RunOnEmpty => ENABLED PopLoad)
    /\ [][(RunOnEmpty /\ runpc' # runpc) =>
            /\ runpc' = "returned"
            /\ UNCHANGED <<cur, exec_vars, task_vars, timer_state_vars,
                           timer_thread_vars, ext_vars, hist_vars>>]_vars

\* C16 witness: a second call of run(), made after the first one had resumed
\* and completed a task, has returned.
C16_Witness ==
    rerun /\ runpc = "returned" /\ \E t \in Tasks : hello[t] = "Done"

\* the step that completes a call of Executor::spawn: the push of the new
\* task, by main before run() or by a computation during run()
SpawnPushes ==
    \/ runpc = "main" /\ ready_queue' # ready_queue
    \/ runpc = "spawn_store" /\ runpc' = "poll"

\* the task a completing spawn has created
SpawnedTask == IF runpc = "main" THEN Len(ready_queue) + 1 ELSE NewestTask

\* C17 (as stated): spawn, before run() or from a computation during run(),
\* leaves the new task Holding, appends exactly one entry for it at the tail
\* of the queue, keeps every entry that was in the queue, resumes nothing,
\* and leaves every other task's state unchanged.
C17_Orig_SpawnFrame ==
    [][SpawnPushes =>
          /\ future'[SpawnedTask] = "Some"
          /\ hello'[SpawnedTask] = "Start"
          /\ ready_queue' = Append(ready_queue, SpawnedTask)
          /\ \A u \in Tasks \ {SpawnedTask} : future'[u] = future[u] /\ hello'[u] = hello[u]
          /\ UNCHANGED <<running, world_count, pended>>]_vars

\* C18 (as stated): with the run-loop and every timer thread scheduled
\* fairly, every spawned task eventually is Completed and run() eventually
\* returns with the ready queue empty.
C18_Orig_Liveness ==
    /\ \A t \in Tasks : [](Spawned(t) => <>(hello[t] = "Done" /\ future[t] = "None"))
    /\ <>(runpc = "returned" /\ ready_queue = <<>>)

\* the run-loop is inside run() and has no step it can take: it waits for a mutex
MainWaits == runpc \notin {"main", "returned"} /\ ~ENABLED MainStep

\* timer thread t has not ended and has no step it can take
TimerWaits(t) == tpc[t] \in {"sleep", "wake_load", "wake_store"} /\ ~ENABLED TimerStep(t)

\* C19: the two mutexes cannot deadlock. Only the run-loop ever holds a
\* task's future mutex, and it holds it whenever it holds that task's
\* shared_state mutex (lock order future -> shared_state); a timer thread that
\* holds its shared_state mutex is never waiting (its wake takes no mutex);
\* so the run-loop and a timer thread never wait for each other.
C19_NoLockCycle ==
    /\ \A t \in Tasks : future_lock[t] \in {Free, MainThread}
    /\ \A t \in Tasks : state_lock[t] \in {Free, MainThread, t}
    /\ \A t \in Tasks :
          state_lock[t] = MainThread => (cur = t /\ future_lock[t] = MainThread)
    /\ \A t \in Tasks : state_lock[t] = t => ~TimerWaits(t)
    /\ MainWaits =>
          /\ runpc = "poll_lock"
          /\ state_lock[cur] = cur
          /\ ~TimerWaits(cur)

\* C19 witness: the run-loop, holding a task's future mutex, waits for the
\* shared_state mutex that the task's timer thread holds while it wakes.
C19_Witness ==
    /\ MainWaits
    /\ future_lock[cur] = MainThread
    /\ state_lock[cur] = cur
    /\ tpc[cur] = "wake_load"

\* C20 (as stated): with every task waiting on at most one TimerFuture, the
\* ready queue never holds more than two entries for one task, so its length
\* never exceeds twice the number of spawned tasks.
C20_Orig_QueueBound ==
    /\ \A t \in Tasks : Count(ready_queue, t) <= 2
    /\ Len(ready_queue) <= 2 * Cardinality({t \in Tasks : Spawned(t)})

====
